---------------------------- MODULE Spec2Model ----------------------------
(***************************************************************************)
(* A model of the three scripts of saikat-pundit/csv_files:                *)
(*   scripts/generate_pdfs.py            CSV rows -> one PDF per row       *)
(*   scripts/generate_pdfs_nomapping.py  the same, a later variant         *)
(*   scripts/convert_to_csv.py           HAR/JSON documents -> CSV         *)
(*                                                                         *)
(* A Python str is modelled as the sequence of its code points, so that    *)
(* stripping, substitution, truncation, concatenation and lexicographic    *)
(* order are computed as Python computes them.                             *)
(***************************************************************************)
EXTENDS Integers, Sequences, FiniteSets, TLC

VARIABLES
    sf_script,   \* which script's sanitize_filename is applied
    sf_input,    \* the value handed to sanitize_filename
    sf_once,     \* sanitize_filename(sf_input)
    sf_twice,    \* sanitize_filename(sanitize_filename(sf_input))
    sf_pc,       \* "idle" | "input" | "once" | "twice"
    \* ---- get_columns_aw_to_bb
    gc_script,   \* which script's get_columns_aw_to_bb is applied
    gc_columns,  \* df.columns.tolist()
    gc_selected, \* the list returned
    gc_pc,       \* "idle" | "input" | "done"
    \* ---- main of the renderer scripts
    script,          \* which renderer script runs
    csv,             \* the dataset behind --csv-url
    args,            \* the parsed command line: start_row, end_row
    pc,              \* "idle" | "start" | "loop" | "done" | "aborted" | "crashed"
    idx,             \* the loop variable of main
    end_idx,         \* main's end_idx
    files,           \* the output directory: file name -> row whose PDF it holds
    generated_files, \* generate_pdfs.py: generated_files
    failed_files,    \* generate_pdfs.py: failed_files
    calls,           \* the calls of create_pdf_for_row so far: row number,
                     \* position of the row in the dataset, path, outcome
    summary,         \* generate_pdfs.py: what summary.txt lists
    \* ---- flatten_dict
    fl_input,    \* the nested mapping handed to flatten_dict
    fl_output,   \* the flat mapping returned
    fl_pc,       \* "idle" | "input" | "done"
    \* ---- convert_to_csv.py
    cv_input,    \* the input file: stem, suffix, parsed content
    cv_custom,   \* custom_filename: <<>> for None, else <<name>>
    cv_entries,  \* the records handed to save_to_csv
    cv_pc,       \* "idle" | "save" | "input" | "done" | "crashed"
    out_dir,     \* the output directory: file name -> header and rows
    \* ---- convert_all
    ca_dir,      \* the files of the input directory
    ca_done,     \* those convert_file has been called on
    ca_pc,       \* "idle" | "scan" | "done" | "crashed"
    \* ---- create_pdf_for_row
    cp_script,   \* which script's create_pdf_for_row is applied
    cp_row,      \* row_data: the cell of each column of the dataset
    cp_selected, \* selected_columns, as positions in the dataset
    cp_rendered, \* the label and value cells written to the page, in order
    cp_pc        \* "idle" | "input" | "done"

sf_vars == <<sf_script, sf_input, sf_once, sf_twice, sf_pc>>

gc_vars == <<gc_script, gc_columns, gc_selected, gc_pc>>

main_vars == <<script, csv, args, pc, idx, end_idx, files, generated_files,
               failed_files, calls, summary>>

fl_vars == <<fl_input, fl_output, fl_pc>>

cv_vars == <<cv_input, cv_custom, cv_entries, cv_pc, out_dir>>

ca_vars == <<ca_dir, ca_done, ca_pc>>

cp_vars == <<cp_script, cp_row, cp_selected, cp_rendered, cp_pc>>

vars == <<sf_vars, gc_vars, main_vars, fl_vars, cv_vars, ca_vars, cp_vars>>

\* the variables of the other components
not_sf == <<gc_vars, main_vars, fl_vars, cv_vars, ca_vars, cp_vars>>
not_gc == <<sf_vars, main_vars, fl_vars, cv_vars, ca_vars, cp_vars>>
not_main == <<sf_vars, gc_vars, fl_vars, cv_vars, ca_vars, cp_vars>>
not_fl == <<sf_vars, gc_vars, main_vars, cv_vars, ca_vars, cp_vars>>
not_cv == <<sf_vars, gc_vars, main_vars, fl_vars, ca_vars, cp_vars>>
not_ca == <<sf_vars, gc_vars, main_vars, fl_vars, cp_vars>>
not_cp == <<sf_vars, gc_vars, main_vars, fl_vars, cv_vars, ca_vars>>

\* the state of a component that takes no part in a specification
SfIdle ==
    /\ sf_script = "generate_pdfs"
    /\ sf_input = <<>>
    /\ sf_once = <<>>
    /\ sf_twice = <<>>
    /\ sf_pc = "idle"

GcIdle ==
    /\ gc_script = "generate_pdfs"
    /\ gc_columns = <<>>
    /\ gc_selected = <<>>
    /\ gc_pc = "idle"

CvIdle ==
    /\ cv_input = [stem |-> <<>>, suffix |-> ".json", content |-> [t |-> "null"]]
    /\ cv_custom = <<>>
    /\ cv_entries = <<>>
    /\ cv_pc = "idle"
    /\ out_dir = <<>>

CaIdle ==
    /\ ca_dir = {}
    /\ ca_done = {}
    /\ ca_pc = "idle"

CpIdle ==
    /\ cp_script = "generate_pdfs"
    /\ cp_row = <<>>
    /\ cp_selected = <<>>
    /\ cp_rendered = <<>>
    /\ cp_pc = "idle"

FlIdle ==
    /\ fl_input = <<>>
    /\ fl_output = <<>>
    /\ fl_pc = "idle"

MainIdle ==
    /\ script = "generate_pdfs"
    /\ csv = [ncols |-> 0, col51 |-> <<>>]
    /\ args = [start_row |-> 1, end_row |-> <<>>]
    /\ pc = "idle"
    /\ idx = 0
    /\ end_idx = 0
    /\ files = <<>>
    /\ generated_files = <<>>
    /\ failed_files = <<>>
    /\ calls = <<>>
    /\ summary = <<>>

Scripts == {"generate_pdfs", "generate_pdfs_nomapping"}

(***************************************************************************)
(* Python string primitives                                                *)
(***************************************************************************)

\* str.isspace() / the characters str.strip() removes / the regex class \s
PyWhitespace ==
    {9, 10, 11, 12, 13, 28, 29, 30, 31, 32, 133, 160, 5760}
        \cup (8192..8202) \cup {8232, 8233, 8239, 8287, 12288}

RECURSIVE LStrip(_, _)
LStrip(s, S) ==
    IF s # <<>> /\ Head(s) \in S THEN LStrip(Tail(s), S) ELSE s

RECURSIVE RStrip(_, _)
RStrip(s, S) ==
    IF s # <<>> /\ s[Len(s)] \in S
    THEN RStrip(SubSeq(s, 1, Len(s) - 1), S)
    ELSE s

\* s.strip(chars); s.strip() is PyStrip(s, PyWhitespace)
PyStrip(s, S) == RStrip(LStrip(s, S), S)

\* re.sub(r'[S]', r, s) and s.replace(c, r) for single characters
ReSubClass(s, S, r) == [i \in 1..Len(s) |-> IF s[i] \in S THEN r ELSE s[i]]

\* re.sub(r'[S]+', r, s): every maximal run of characters of S becomes one r
RECURSIVE ReSubRuns(_, _, _)
ReSubRuns(s, S, r) ==
    IF s = <<>> THEN <<>>
    ELSE IF Head(s) \in S
         THEN <<r>> \o ReSubRuns(LStrip(s, S), S, r)
         ELSE <<Head(s)>> \o ReSubRuns(Tail(s), S, r)

\* s.isspace(): non-empty and all whitespace
PyIsSpace(s) == s # <<>> /\ \A i \in 1..Len(s) : s[i] \in PyWhitespace

\* the code points of "unnamed"
Unnamed == <<117, 110, 110, 97, 109, 101, 100>>

\* the float NaN pandas holds for an empty CSV cell (no code point is negative)
NaN == <<-1>>

\* pd.isna(value)
IsNa(v) == v = NaN

(***************************************************************************)
(* sanitize_filename                                                       *)
(***************************************************************************)

\* < > : " / \ | ? *
InvalidChars == {60, 62, 58, 34, 47, 92, 124, 63, 42}

\* ; , \n \r \t
OtherProblemChars == {59, 44, 10, 13, 9}

\* unicodedata.normalize('NFKD', c) of one character: the compatibility
\* decomposition.  ASCII is unchanged; of the others the table holds those the
\* model feeds in, any other character is taken as having no decomposition.
NFKDChar(c) ==
    CASE c = 160   -> <<32>>            \* NO-BREAK SPACE -> SPACE
      [] c = 233   -> <<101, 769>>      \* e-acute -> e, COMBINING ACUTE
      [] c = 65306 -> <<58>>            \* FULLWIDTH COLON -> :
      [] c = 65295 -> <<47>>            \* FULLWIDTH SOLIDUS -> /
      [] c = 65311 -> <<63>>            \* FULLWIDTH QUESTION MARK -> ?
      [] OTHER     -> <<c>>

RECURSIVE NFKD(_)
NFKD(s) == IF s = <<>> THEN <<>> ELSE NFKDChar(Head(s)) \o NFKD(Tail(s))

\* .encode('ASCII', 'ignore').decode('ASCII')
AsciiIgnore(s) == SelectSeq(s, LAMBDA c : c < 128)

MaxFilenameLen == 45

TruncateKeepsOneMore(s) ==
    IF Len(s) > MaxFilenameLen THEN SubSeq(s, 1, MaxFilenameLen + 1) ELSE s

\* if len(filename) > 45: filename = filename[:45]
Truncate(s) ==
    IF Len(s) > MaxFilenameLen THEN SubSeq(s, 1, MaxFilenameLen) ELSE s

\* generate_pdfs.py
sanitize_filename(filename) ==
    IF IsNa(filename) \/ filename = <<>> THEN Unnamed
    ELSE
      LET s1 == PyStrip(filename, PyWhitespace)
          s2 == ReSubClass(s1, InvalidChars, 95)
          s3 == ReSubClass(s2, OtherProblemChars, 95)
          s4 == PyStrip(s3, {46, 32})
          s5 == AsciiIgnore(NFKD(s4))
          s6 == ReSubRuns(s5, {95}, 95)
          s7 == Truncate(s6)
      IN  IF s7 = <<>> \/ PyIsSpace(s7) THEN Unnamed ELSE s7

\* generate_pdfs_nomapping.py
sanitize_filename_nomapping(filename) ==
    IF IsNa(filename) \/ filename = <<>> THEN Unnamed
    ELSE
      LET s1 == PyStrip(filename, PyWhitespace)
          s2 == ReSubClass(s1, InvalidChars \cup {59, 44}, 95)
          s3 == ReSubRuns(s2, PyWhitespace, 95)
          s4 == PyStrip(s3, {95})
          s5 == Truncate(s4)
      IN  IF s5 = <<>> THEN Unnamed ELSE s5

SanitizeOf(s, v) ==
    IF s = "generate_pdfs"
    THEN sanitize_filename(v)
    ELSE sanitize_filename_nomapping(v)

(***************************************************************************)
(* Inputs of sanitize_filename: a run of 'a' (none, or long enough to      *)
(* bring the tail to the length cap) followed by a short tail over an      *)
(* alphabet with a member of every class the function distinguishes.       *)
(***************************************************************************)
MaxTail == 2

\* a _ space . : tab VT e-acute FULLWIDTH-COLON
Alphabet == {97, 95, 32, 46, 58, 9, 11, 233, 65306}

FillLens == {0, MaxFilenameLen - 2, MaxFilenameLen - 1, MaxFilenameLen}

Fill(n) == [i \in 1..n |-> 97]

Tails == UNION {[1..k -> Alphabet] : k \in 0..MaxTail}

SanitizeInputs ==
    {NaN} \cup {Fill(n) \o t : n \in FillLens, t \in Tails}
          \cup {t \o Fill(n) : n \in {1}, t \in Tails}

SfInit ==
    /\ sf_script \in Scripts
    /\ sf_input \in SanitizeInputs
    /\ sf_once = <<>>
    /\ sf_twice = <<>>
    /\ sf_pc = "input"
    /\ GcIdle /\ MainIdle /\ FlIdle /\ CvIdle /\ CaIdle /\ CpIdle

\* the first application
Sanitize ==
    /\ sf_pc = "input"
    /\ sf_once' = SanitizeOf(sf_script, sf_input)
    /\ sf_pc' = "once"
    /\ UNCHANGED <<sf_script, sf_input, sf_twice, not_sf>>

\* the result sanitized again
SanitizeAgain ==
    /\ sf_pc = "once"
    /\ sf_twice' = SanitizeOf(sf_script, sf_once)
    /\ sf_pc' = "twice"
    /\ UNCHANGED <<sf_script, sf_input, sf_once, not_sf>>

SfNext == Sanitize \/ SanitizeAgain

SpecSanitize == SfInit /\ [][SfNext]_vars

(***************************************************************************)
(* Properties of sanitize_filename, under SpecSanitize                     *)
(***************************************************************************)

\* C2: sanitize_filename is idempotent in both scripts: sanitizing the result
\* of sanitize_filename again gives the same string.
C2_SanitizeIdempotent == sf_pc = "twice" => sf_twice = sf_once

\* C3: the string sanitize_filename returns holds none of the characters
\* < > : " / \ | ? *, in both scripts.
C3_NoInvalidCharsInResult ==
    sf_pc # "input" => \A i \in 1..Len(sf_once) : sf_once[i] \notin InvalidChars

\* C4: sanitize_filename returns a non-empty string of at most 45 characters,
\* and returns "unnamed" when its input is missing, empty or only whitespace.
C4_NonEmptyBoundedPlaceholder ==
    sf_pc # "input" =>
        /\ Len(sf_once) \in 1..45
        /\ (IsNa(sf_input) \/ sf_input = <<>> \/ PyIsSpace(sf_input))
               => sf_once = Unnamed

\* C4's case: a whitespace-only input of two characters has been sanitized
C4_Witness ==
    /\ sf_pc = "once"
    /\ PyIsSpace(sf_input)
    /\ Len(sf_input) = 2
    /\ sf_once = Unnamed

(***************************************************************************)
(* get_columns_aw_to_bb                                                    *)
(***************************************************************************)

Min(a, b) == IF a < b THEN a ELSE b
Max(a, b) == IF a > b THEN a ELSE b

\* a slice bound as Python clamps it: negative counts from the end
SliceBound(i, n) == IF i < 0 THEN Max(i + n, 0) ELSE Min(i, n)

\* s[lo:hi]
PySlice(s, lo, hi) ==
    SubSeq(s, SliceBound(lo, Len(s)) + 1, SliceBound(hi, Len(s)))

\* s[lo:]
PySliceFrom(s, lo) == PySlice(s, lo, Len(s))

get_columns_window_from_49(all_columns) ==
    IF Len(all_columns) >= 54
    THEN PySlice(all_columns, 49, 54)
    ELSE PySliceFrom(all_columns, Max(0, Len(all_columns) - 6))

\* generate_pdfs.py
get_columns_aw_to_bb(all_columns) ==
    IF Len(all_columns) >= 54
    THEN PySlice(all_columns, 48, 54)
    ELSE PySliceFrom(all_columns, Max(0, Len(all_columns) - 6))

\* generate_pdfs_nomapping.py
get_columns_aw_to_bb_nomapping(all_columns) ==
    IF Len(all_columns) >= 54
    THEN PySlice(all_columns, 48, 54)
    ELSE PySliceFrom(all_columns, -6)

GetColumnsOf(s, all_columns) ==
    IF s = "generate_pdfs"
    THEN get_columns_aw_to_bb(all_columns)
    ELSE get_columns_aw_to_bb_nomapping(all_columns)

\* The columns of a dataset are told apart by position: column i of the
\* header is written i.
MaxCols == 56

Columns(n) == [i \in 1..n |-> i]

GcInit ==
    /\ gc_script \in Scripts
    /\ gc_columns \in {Columns(n) : n \in 0..MaxCols}
    /\ gc_selected = <<>>
    /\ gc_pc = "input"
    /\ SfIdle /\ MainIdle /\ FlIdle /\ CvIdle /\ CaIdle /\ CpIdle

GetColumns ==
    /\ gc_pc = "input"
    /\ gc_selected' = GetColumnsOf(gc_script, gc_columns)
    /\ gc_pc' = "done"
    /\ UNCHANGED <<gc_script, gc_columns, not_gc>>

GcNext == GetColumns

SpecColumns == GcInit /\ [][GcNext]_vars

\* C9 as stated: with n >= 54 columns the result is the columns at positions
\* 49..54 in order, with n < 54 it is the last 6 columns in order.
C9_Original ==
    gc_pc = "done" =>
        LET n == Len(gc_columns) IN
        IF n >= 54
        THEN gc_selected = [i \in 1..6 |-> gc_columns[48 + i]]
        ELSE /\ Len(gc_selected) = 6
             /\ \A i \in 1..6 : gc_selected[i] = gc_columns[n - 6 + i]

\* C9 as amended: with n >= 54 columns the result is the columns at positions
\* 49..54 in order; with 6 <= n < 54 it is the last 6 columns in order; with
\* n < 6 it is all n columns in order.
C9_ColumnWindow ==
    gc_pc = "done" =>
        LET n == Len(gc_columns) IN
        IF n >= 54
        THEN gc_selected = [i \in 1..6 |-> gc_columns[48 + i]]
        ELSE IF n >= 6
             THEN gc_selected = [i \in 1..6 |-> gc_columns[n - 6 + i]]
             ELSE gc_selected = gc_columns

\* C9's case: a dataset of 54 or more columns has been sliced
C9_Witness ==
    /\ gc_pc = "done"
    /\ Len(gc_columns) >= 54
    /\ gc_selected = <<49, 50, 51, 52, 53, 54>>

(***************************************************************************)
(* main of generate_pdfs.py and generate_pdfs_nomapping.py                 *)
(***************************************************************************)

\* the decimal digits of n >= 0
RECURSIVE Digits(_)
Digits(n) ==
    IF n < 10 THEN <<48 + n>> ELSE Digits(n \div 10) \o <<48 + (n % 10)>>

ZeroPad(d, w) == [i \in 1..(w - Len(d)) |-> 48] \o d

\* f"{n:03d}": the sign counts in the width
Fmt03d(n) ==
    IF n < 0
    THEN <<45>> \o ZeroPad(Digits(0 - n), Max(2, Len(Digits(0 - n))))
    ELSE ZeroPad(Digits(n), Max(3, Len(Digits(n))))

\* "record_"
RecordPrefix == <<114, 101, 99, 111, 114, 100, 95>>

\* ".pdf"
PdfSuffix == <<46, 112, 100, 102>>

\* df.iloc[i] of a frame of n rows: the 1-based position of the row, 0 when
\* iloc raises IndexError
ILoc(i, n) ==
    IF 0 <= i /\ i < n THEN i + 1
    ELSE IF i < 0 /\ i + n >= 0 THEN i + n + 1
    ELSE 0

\* len(df)
NRows == Len(csv.col51)

\* filename_column = all_columns[51] if len(all_columns) >= 52 else None
HasFilenameColumn == csv.ncols >= 52

\* the cells of the filename column: a, a_003, and the empty cell
FilenameValues == {<<97>>, <<97, 95, 48, 48, 51>>, NaN}

\* sanitize_filename(filename_value) of each script for each of those cells
SanitizedNames ==
    [s \in Scripts |-> [v \in FilenameValues |-> SanitizeOf(s, v)]]

\* base_name of the row at position p (1-based), numbered row_num
BaseName(p, row_num) ==
    IF HasFilenameColumn
    THEN LET filename_value == csv.col51[p] IN
         IF script = "generate_pdfs"
         THEN IF IsNa(filename_value) \/ filename_value = <<>>
              THEN RecordPrefix \o Fmt03d(row_num)
              ELSE SanitizedNames[script][filename_value]
         ELSE SanitizedNames[script][filename_value]
    ELSE RecordPrefix \o Fmt03d(row_num)

\* output_filename: base_name.pdf, or base_name_NNN.pdf when that exists
OutputFilename(p, row_num) ==
    LET base_name == BaseName(p, row_num) IN
    IF (base_name \o PdfSuffix) \in DOMAIN files
    THEN base_name \o <<95>> \o Fmt03d(row_num) \o PdfSuffix
    ELSE base_name \o PdfSuffix

MaxRows == 3

\* the datasets: fewer than 52 columns (no filename column) or 60 columns
Datasets ==
    {[ncols |-> 10, col51 |-> [i \in 1..n |-> NaN]] : n \in 0..MaxRows}
    \cup
    {[ncols |-> 60, col51 |-> c] :
        c \in UNION {[1..n -> FilenameValues] : n \in 0..MaxRows}}

\* --end-row: <<>> when the option is not given, else <<its value>>
ArgSets ==
    [start_row : -1..(MaxRows + 1),
     end_row : {<<>>} \cup {<<e>> : e \in 0..(MaxRows + 1)}]

\* the range ends before its last row
EndIdxBeforeLastRow(end_row, n) ==
    IF end_row # <<>> /\ end_row[1] # 0 THEN end_row[1] - 1 ELSE n

\* end_idx = args.end_row if args.end_row else len(df)
EndIdx(end_row, n) ==
    IF end_row # <<>> /\ end_row[1] # 0 THEN end_row[1] ELSE n

\* start_idx = args.start_row - 1
StartIdx(start_row) == start_row - 1

MainInit ==
    /\ script \in Scripts
    /\ csv \in Datasets
    /\ args \in ArgSets
    /\ pc = "start"
    /\ idx = 0
    /\ end_idx = 0
    /\ files = <<>>
    /\ generated_files = <<>>
    /\ failed_files = <<>>
    /\ calls = <<>>
    /\ summary = <<>>
    /\ SfIdle /\ GcIdle /\ FlIdle /\ CvIdle /\ CaIdle /\ CpIdle

\* download_csv_from_url returns None: main returns
DownloadFails ==
    /\ pc = "start"
    /\ pc' = "aborted"
    /\ UNCHANGED <<script, csv, args, idx, end_idx, files, generated_files,
                   failed_files, calls, summary, not_main>>

\* main from the download to the head of the loop
Setup ==
    /\ pc = "start"
    /\ LET start_idx == StartIdx(args.start_row)
           e == EndIdx(args.end_row, NRows)
       IN  /\ idx' = start_idx
           /\ end_idx' = e
           /\ pc' = IF GetColumnsOf(script, Columns(csv.ncols)) = <<>>
                    THEN "aborted"
                    ELSE IF script = "generate_pdfs"
                            /\ (start_idx < 0 \/ e > NRows)
                    THEN "aborted"
                    ELSE "loop"
    /\ UNCHANGED <<script, csv, args, files, generated_files, failed_files,
                   calls, summary, not_main>>

\* the exception of create_pdf_for_row leaves main uncaught
RowFailurePropagates(row_num, path) ==
    /\ failed_files' = failed_files
    /\ calls' = Append(calls, [row |-> row_num, pos |-> ILoc(idx, NRows),
                               path |-> path, ok |-> FALSE])
    /\ idx' = idx
    /\ pc' = "crashed"

\* what the except clause of the loop does with a failed row
HandleRowFailure(row_num, path) ==
    /\ failed_files' =
          IF script = "generate_pdfs"
          THEN Append(failed_files, row_num)
          ELSE failed_files
    /\ calls' = Append(calls, [row |-> row_num, pos |-> ILoc(idx, NRows),
                               path |-> path, ok |-> FALSE])
    /\ idx' = idx + 1
    /\ pc' = "loop"

\* one iteration of the loop in which create_pdf_for_row returns
RowGenerated ==
    /\ pc = "loop"
    /\ idx < end_idx
    /\ ILoc(idx, NRows) # 0
    /\ LET row_num == idx + 1
           path == OutputFilename(ILoc(idx, NRows), row_num)
       IN  /\ files' = (path :> row_num) @@ files
           /\ generated_files' =
                 IF script = "generate_pdfs"
                 THEN Append(generated_files, path)
                 ELSE generated_files
           /\ calls' = Append(calls, [row |-> row_num, pos |-> ILoc(idx, NRows),
                                      path |-> path, ok |-> TRUE])
    /\ idx' = idx + 1
    /\ UNCHANGED <<script, csv, args, pc, end_idx, failed_files, summary,
                   not_main>>

\* one iteration of the loop in which create_pdf_for_row raises
RowFails ==
    /\ pc = "loop"
    /\ idx < end_idx
    /\ ILoc(idx, NRows) # 0
    /\ HandleRowFailure(idx + 1, OutputFilename(ILoc(idx, NRows), idx + 1))
    /\ UNCHANGED <<script, csv, args, end_idx, files, generated_files,
                   summary, not_main>>

\* df.iloc[idx] raises IndexError outside the try: the run ends by it
RowOutOfBounds ==
    /\ pc = "loop"
    /\ idx < end_idx
    /\ ILoc(idx, NRows) = 0
    /\ pc' = "crashed"
    /\ UNCHANGED <<script, csv, args, idx, end_idx, files, generated_files,
                   failed_files, calls, summary, not_main>>

\* the loop is over: generate_pdfs.py writes summary.txt
Finish ==
    /\ pc = "loop"
    /\ idx >= end_idx
    /\ pc' = "done"
    /\ summary' = IF script = "generate_pdfs" THEN generated_files ELSE summary
    /\ UNCHANGED <<script, csv, args, idx, end_idx, files, generated_files,
                   failed_files, calls, not_main>>

MainNext ==
    \/ DownloadFails
    \/ Setup
    \/ RowGenerated
    \/ RowFails
    \/ RowOutOfBounds
    \/ Finish

SpecMain == MainInit /\ [][MainNext]_vars

\* main is one sequential program: while a step of it is possible, it takes one
SpecMainLive == SpecMain /\ WF_vars(MainNext)

(***************************************************************************)
(* Properties of the main loop, under SpecMain                             *)
(***************************************************************************)

\* the calls of create_pdf_for_row that returned / that raised
OkCalls == SelectSeq(calls, LAMBDA c : c.ok)
FailedCalls == SelectSeq(calls, LAMBDA c : ~c.ok)

\* C1: in a run that starts with an empty output directory and in which every
\* row renders, no two rows are written to the same output path: k rendered
\* rows leave k distinct PDF files.
C1_DistinctOutputPaths ==
    (\A k \in 1..Len(calls) : calls[k].ok) =>
        /\ \A j, k \in 1..Len(calls) : j # k => calls[j].path # calls[k].path
        /\ Cardinality(DOMAIN files) = Len(calls)

InRange ==
    /\ 1 <= args.start_row
    /\ IF args.end_row = <<>>
       THEN args.start_row <= NRows
       ELSE args.start_row <= args.end_row[1] /\ args.end_row[1] <= NRows

\* the rows start-row..end-row, or start-row..N when end-row is omitted
RangeRows ==
    LET last == IF args.end_row = <<>> THEN NRows ELSE args.end_row[1]
    IN  [k \in 1..(last - args.start_row + 1) |-> args.start_row + k - 1]

\* the rows of the dataset handed to create_pdf_for_row so far, in call order
AttemptedRows == [k \in 1..Len(calls) |-> calls[k].pos]

\* the rows attempted so far are the first rows of the range, numbered as they
\* lie in the dataset; a run that is over has attempted them all, and no run
\* ends otherwise than by the failed download, before the range is determined
AttemptsFollowRange ==
    InRange =>
        /\ Len(calls) <= Len(RangeRows)
        /\ \A k \in 1..Len(calls) :
              calls[k].pos = RangeRows[k] /\ calls[k].row = RangeRows[k]
        /\ pc = "done" => AttemptedRows = RangeRows
        /\ pc # "crashed"
        /\ pc = "aborted" => end_idx = 0

\* C11: with 1 <= start-row <= end-row <= N both scripts attempt exactly the
\* rows start-row..end-row, each once and in ascending order, and with end-row
\* omitted exactly the rows start-row..N: at every moment the attempted rows
\* are the first rows of that range, and a run that has entered the loop
\* reaches its end with all of them attempted.
C11_RangeAttemptedOnceInOrder ==
    /\ []AttemptsFollowRange
    /\ (InRange /\ pc = "loop") ~> (pc = "done" /\ AttemptedRows = RangeRows)

\* C11's case: rows 2..3 of a dataset of three rows were asked for, and the
\* run is over with the calls for row 2, then row 3
C11_Witness ==
    /\ pc = "done"
    /\ args = [start_row |-> 2, end_row |-> <<3>>]
    /\ NRows = 3
    /\ AttemptedRows = <<2, 3>>
    /\ ~calls[1].ok /\ calls[2].ok

\* C15: whatever integers --start-row and --end-row are, no row is rendered
\* whose 1-based number in the dataset lies outside [start-row, end-row].
C15_NoRowOutsideRange ==
    args.end_row # <<>> =>
        \A k \in 1..Len(calls) :
            calls[k].ok =>
                (args.start_row <= calls[k].pos /\ calls[k].pos <= args.end_row[1])

(***************************************************************************)
(* convert_to_csv.py: JSON values                                          *)
(*                                                                         *)
(* A parsed JSON value is a record tagged by its Python type.  A dict is   *)
(* the sequence of its (key, value) pairs in insertion order, its keys     *)
(* distinct.                                                               *)
(***************************************************************************)
JInt(n) == [t |-> "int", n |-> n]
JStr(s) == [t |-> "str", s |-> s]
JNull == [t |-> "null"]
JList(items) == [t |-> "list", items |-> items]
JDict(kv) == [t |-> "dict", kv |-> kv]

IsDict(v) == v.t = "dict"
IsList(v) == v.t = "list"

\* the keys of a sequence of (key, value) pairs
KeysOf(kv) == {kv[i][1] : i \in 1..Len(kv)}

\* d[key] of a sequence of pairs with distinct keys that holds the key
ValueAt(kv, key) == kv[CHOOSE i \in 1..Len(kv) : kv[i][1] = key][2]

\* dict(items): a key keeps the place of its first pair and the value of its last
RECURSIVE DictFromItems(_)
DictFromItems(items) ==
    IF items = <<>> THEN <<>>
    ELSE LET n == Len(items)
             front == DictFromItems(SubSeq(items, 1, n - 1))
             last == items[n]
         IN  IF last[1] \in KeysOf(front)
             THEN [i \in 1..Len(front) |->
                     IF front[i][1] = last[1] THEN last ELSE front[i]]
             ELSE Append(front, last)

\* str(n) of an int
IntStr(n) == IF n < 0 THEN <<45>> \o Digits(0 - n) ELSE Digits(n)

\* sep.join(parts)
RECURSIVE Join(_, _)
Join(parts, sep) ==
    IF parts = <<>> THEN <<>>
    ELSE IF Len(parts) = 1 THEN parts[1]
    ELSE parts[1] \o sep \o Join(Tail(parts), sep)

\* json.dumps(v) with the default separators; the strings of the model hold
\* nothing that json.dumps escapes
RECURSIVE JsonDumps(_)
JsonDumps(v) ==
    CASE v.t = "int"  -> IntStr(v.n)
      [] v.t = "str"  -> <<34>> \o v.s \o <<34>>
      [] v.t = "null" -> <<110, 117, 108, 108>>
      [] v.t = "list" ->
            <<91>> \o Join([i \in 1..Len(v.items) |-> JsonDumps(v.items[i])],
                           <<44, 32>>) \o <<93>>
      [] v.t = "dict" ->
            <<123>> \o Join([i \in 1..Len(v.kv) |->
                               <<34>> \o v.kv[i][1] \o <<34, 58, 32>>
                                      \o JsonDumps(v.kv[i][2])],
                            <<44, 32>>) \o <<125>>

(***************************************************************************)
(* flatten_dict                                                            *)
(***************************************************************************)

\* the list `items` that flatten_dict builds from the pairs of d
RECURSIVE FlattenItems(_, _)

\* flatten_dict(d, parent_key, sep='_') of the pairs of a dict
flatten_dict(kv, parent_key) == DictFromItems(FlattenItems(kv, parent_key))

FlattenItems(kv, parent_key) ==
    IF kv = <<>> THEN <<>>
    ELSE LET k == kv[1][1]
             v == kv[1][2]
             new_key == IF parent_key # <<>>
                        THEN parent_key \o <<95>> \o k
                        ELSE k
             here == IF IsDict(v) THEN flatten_dict(v.kv, new_key)
                     ELSE IF IsList(v) THEN <<<<new_key, JStr(JsonDumps(v))>>>>
                     ELSE <<<<new_key, v>>>>
         IN  here \o FlattenItems(Tail(kv), parent_key)

\* the dicts with some of the keys ks (in that order), values from V
RECURSIVE DictsOver(_, _)
DictsOver(ks, V) ==
    IF ks = <<>> THEN {<<>>}
    ELSE LET rest == DictsOver(Tail(ks), V)
         IN  rest \cup {<<<<Head(ks), v>>>> \o r : v \in V, r \in rest}

S_a == <<97>>
S_b == <<98>>
S_c == <<99>>
S_a_b == <<97, 95, 98>>

\* 1, [1, 2] and {}
LeafValues == {JInt(1), JList(<<JInt(1), JInt(2)>>), JDict(<<>>)}

\* the nested mappings of the inputs: keys b, c
InnerDicts == {JDict(kv) : kv \in DictsOver(<<S_b, S_c>>, LeafValues)}

\* the inputs of flatten_dict: keys a, a_b, c over leaves and nested mappings
FlattenInputs == DictsOver(<<S_a, S_a_b, S_c>>, LeafValues \cup InnerDicts)

FlInit ==
    /\ fl_input \in FlattenInputs
    /\ fl_output = <<>>
    /\ fl_pc = "input"
    /\ SfIdle /\ GcIdle /\ MainIdle /\ CvIdle /\ CaIdle /\ CpIdle

Flatten ==
    /\ fl_pc = "input"
    /\ fl_output' = flatten_dict(fl_input, <<>>)
    /\ fl_pc' = "done"
    /\ UNCHANGED <<fl_input, not_fl>>

FlNext == Flatten

SpecFlatten == FlInit /\ [][FlNext]_vars

\* the key paths of a nested mapping that end in a leaf: a value that is no
\* mapping, or a mapping with no key
RECURSIVE LeafPaths(_)
LeafPaths(kv) ==
    UNION {LET k == kv[i][1]
               v == kv[i][2]
           IN  IF IsDict(v) /\ v.kv # <<>>
               THEN {<<k>> \o p : p \in LeafPaths(v.kv)}
               ELSE {<<k>>}
           : i \in 1..Len(kv)}

\* the composite key of a key path
CompositeKey(path) == Join(path, <<95>>)

\* key.split('_'): the key path that re-nesting a composite key gives
RECURSIVE SplitKey(_)
SplitKey(key) ==
    IF 95 \notin {key[i] : i \in 1..Len(key)} THEN <<key>>
    ELSE LET j == CHOOSE i \in 1..Len(key) :
                     key[i] = 95 /\ \A h \in 1..(i - 1) : key[h] # 95
         IN  <<SubSeq(key, 1, j - 1)>> \o SplitKey(SubSeq(key, j + 1, Len(key)))

\* C5: flatten_dict is injective on key paths: distinct leaf key paths get
\* distinct composite keys, each of them a key of the result, and re-nesting
\* the result along '_' gives back the key paths of the input.
C5_FlattenInjective ==
    fl_pc = "done" =>
        /\ \A p, q \in LeafPaths(fl_input) :
              p # q => CompositeKey(p) # CompositeKey(q)
        /\ KeysOf(fl_output) = {CompositeKey(p) : p \in LeafPaths(fl_input)}
        /\ {SplitKey(k) : k \in KeysOf(fl_output)} = LeafPaths(fl_input)

(***************************************************************************)
(* save_to_csv                                                             *)
(***************************************************************************)

\* a < b for two str: by code point, a proper prefix first
RECURSIVE StrLess(_, _)
StrLess(a, b) ==
    IF b = <<>> THEN FALSE
    ELSE IF a = <<>> THEN TRUE
    ELSE IF Head(a) # Head(b) THEN Head(a) < Head(b)
    ELSE StrLess(Tail(a), Tail(b))

\* sorted(list(S)) of a set of str
RECURSIVE Sorted(_)
Sorted(S) ==
    IF S = {} THEN <<>>
    ELSE LET m == CHOOSE x \in S : \A y \in S \ {x} : StrLess(x, y)
         IN  <<m>> \o Sorted(S \ {m})

\* the cell csv.writer writes for a value: '' for None, str(value) otherwise
CsvCell(v) ==
    CASE v.t = "null" -> <<>>
      [] v.t = "int"  -> IntStr(v.n)
      [] v.t = "str"  -> v.s
      [] OTHER        -> JsonDumps(v)

UnsortedFieldnames(data) ==
    LET all == Join([i \in 1..Len(data) |-> data[i]], <<>>)
        first == DictFromItems(all)
    IN  [j \in 1..Len(first) |-> first[j][1]]

\* fieldnames = sorted(list(the keys of all rows))
Fieldnames(data) ==
    Sorted(UNION {KeysOf(data[i]) : i \in 1..Len(data)})

\* the row DictWriter writes for a record: restval '' for an absent key
DictWriterRow(fieldnames, rec) ==
    [j \in 1..Len(fieldnames) |->
        IF fieldnames[j] \in KeysOf(rec)
        THEN CsvCell(ValueAt(rec, fieldnames[j]))
        ELSE <<>>]

\* ".csv"
CsvSuffix == <<46, 99, 115, 118>>

\* save_to_csv(data, output_filename): the output directory after the call
save_to_csv(dir, data, output_filename) ==
    IF data = <<>> THEN dir
    ELSE LET fieldnames == Fieldnames(data)
         IN  ((output_filename \o CsvSuffix) :>
                 [header |-> fieldnames,
                  rows |-> [i \in 1..Len(data) |->
                               DictWriterRow(fieldnames, data[i])]])
             @@ dir

MaxRecords == 2

S_B == <<66>>
S_out == <<111, 117, 116>>

\* the records handed to save_to_csv: keys b, a_b, a inserted in that order,
\* and one with the key B
SaveRecords ==
    DictsOver(<<S_b, S_a_b, S_a>>, {JInt(12), JNull})
        \cup {<<<<S_B, JStr(S_a)>>>>}

SaveInit ==
    /\ cv_input = [stem |-> <<>>, suffix |-> ".json", content |-> JNull]
    /\ cv_custom = <<S_out>>
    /\ cv_entries \in UNION {[1..n -> SaveRecords] : n \in 0..MaxRecords}
    /\ cv_pc = "save"
    /\ out_dir = <<>>
    /\ SfIdle /\ GcIdle /\ MainIdle /\ FlIdle /\ CaIdle /\ CpIdle

\* a call of save_to_csv on the records cv_entries
SaveToCsv ==
    /\ cv_pc = "save"
    /\ out_dir' = save_to_csv(out_dir, cv_entries, cv_custom[1])
    /\ cv_pc' = "done"
    /\ UNCHANGED <<cv_input, cv_custom, cv_entries, not_cv>>

SaveNext == SaveToCsv

SpecSave == SaveInit /\ [][SaveNext]_vars

\* the CSV file that the call wrote
SavedFile == out_dir[S_out \o CsvSuffix]

\* C8: save_to_csv on a non-empty sequence of records writes a header that is
\* the sorted union of the keys of all records, then one row per record in
\* input order, each with a cell for every header column: the record's value
\* as csv writes it, or the empty string when the record lacks the key.  On an
\* empty sequence it writes no file.
C8_HeaderAndRows ==
    cv_pc = "done" =>
        IF cv_entries = <<>>
        THEN out_dir = <<>>
        ELSE /\ DOMAIN out_dir = {S_out \o CsvSuffix}
             /\ LET h == SavedFile.header
                    rows == SavedFile.rows
                IN  /\ \A i, j \in 1..Len(h) : i < j => StrLess(h[i], h[j])
                    /\ {h[j] : j \in 1..Len(h)}
                          = UNION {KeysOf(cv_entries[i]) : i \in 1..Len(cv_entries)}
                    /\ Len(rows) = Len(cv_entries)
                    /\ \A i \in 1..Len(rows) :
                          /\ Len(rows[i]) = Len(h)
                          /\ \A j \in 1..Len(h) :
                                rows[i][j] =
                                   IF \E m \in 1..Len(cv_entries[i]) :
                                         cv_entries[i][m][1] = h[j]
                                   THEN CsvCell(ValueAt(cv_entries[i], h[j]))
                                   ELSE <<>>

\* C8's case: two records with different keys, inserted out of order, have
\* been written under a header of three columns
C8_Witness ==
    /\ cv_pc = "done"
    /\ Len(cv_entries) = 2
    /\ KeysOf(cv_entries[1]) = {S_b, S_a}
    /\ KeysOf(cv_entries[2]) = {S_a_b}
    /\ SavedFile.header = <<S_a, S_a_b, S_b>>
    /\ Len(SavedFile.rows) = 2

(***************************************************************************)
(* extract_elector_data, extract_generic_data, convert_file                *)
(***************************************************************************)
S_payload == <<112, 97, 121, 108, 111, 97, 100>>
S_electorDetailDto == <<101, 108, 101, 99, 116, 111, 114, 68, 101, 116, 97, 105, 108, 68, 116, 111>>
S_log == <<108, 111, 103>>
S_entries == <<101, 110, 116, 114, 105, 101, 115>>
S_response == <<114, 101, 115, 112, 111, 110, 115, 101>>
S_content == <<99, 111, 110, 116, 101, 110, 116>>
S_text == <<116, 101, 120, 116>>
S_status == <<115, 116, 97, 116, 117, 115>>
S_value == <<118, 97, 108, 117, 101>>
S_name == <<110, 97, 109, 101>>
S_doc == <<100, 111, 99>>
S_oops == <<111, 111, 112, 115>>
S_log_entries == <<108, 111, 103, 95, 101, 110, 116, 114, 105, 101, 115>>

\* bool(v) is False
Falsy(v) ==
    CASE v.t = "dict" -> v.kv = <<>>
      [] v.t = "list" -> v.items = <<>>
      [] v.t = "str"  -> v.s = <<>>
      [] v.t = "int"  -> v.n = 0
      [] v.t = "null" -> TRUE
      [] OTHER        -> FALSE

\* d.get(key, default) of a dict
Get(d, key, default) ==
    IF key \in KeysOf(d.kv) THEN ValueAt(d.kv, key) ELSE default

\* sub in s for two str
Contains(s, sub) ==
    \E i \in 0..(Len(s) - Len(sub)) : SubSeq(s, i + 1, i + Len(sub)) = sub

\* `name in c`: "true", "false", or "raise" (TypeError) where c is no container
PyIn(name, c) ==
    CASE c.t = "dict" -> IF name \in KeysOf(c.kv) THEN "true" ELSE "false"
      [] c.t = "list" -> IF \E i \in 1..Len(c.items) : c.items[i] = JStr(name)
                         THEN "true" ELSE "false"
      [] c.t = "str"  -> IF Contains(c.s, name) THEN "true" ELSE "false"
      [] OTHER        -> "raise"

\* the loop over electors: a dict item is flattened, any other item skipped;
\* nothing comes of electors that are no list (the iteration yields no dict or
\* raises into the except clause with entries still empty)
RECURSIVE FlattenElectors(_)
FlattenElectors(items) ==
    IF items = <<>> THEN <<>>
    ELSE (IF IsDict(Head(items))
          THEN <<flatten_dict(Head(items).kv, <<>>)>>
          ELSE <<>>) \o FlattenElectors(Tail(items))

ElectorsOf(electors) ==
    IF IsList(electors) THEN FlattenElectors(electors.items) ELSE <<>>

\* the documents json.loads is asked to parse in the model: the texts of the
\* response bodies are json.dumps of these, or no JSON at all
ElectorObjs ==
    {JDict(<<<<S_name, JStr(S_a)>>>>),
     JDict(<<<<S_name, JStr(S_b)>>, <<S_a, JDict(<<<<S_b, JInt(1)>>>>)>>>>)}

BodyDocs ==
    {JDict(<<<<S_payload, JDict(<<<<S_electorDetailDto, JList(l)>>>>)>>>>) :
        l \in UNION {[1..n -> ElectorObjs] : n \in 1..2}}

ParseError == [t |-> "error"]

\* the JSON text of each of them
BodyText == [b \in BodyDocs |-> JsonDumps(b)]

\* json.loads(text): the value whose JSON text it is; ParseError when it raises
JsonLoads(text) ==
    IF \E v \in BodyDocs : BodyText[v] = text
    THEN CHOOSE v \in BodyDocs : BodyText[v] = text
    ELSE ParseError

\* an entry of log.entries makes entry.get / response.get / content.get raise
EntryRaises(entry) ==
    \/ ~IsDict(entry)
    \/ ~IsDict(Get(entry, S_response, JDict(<<>>)))
    \/ ~IsDict(Get(Get(entry, S_response, JDict(<<>>)), S_content, JDict(<<>>)))

\* text = content.get('text', '') of an entry that does not raise
EntryText(entry) ==
    Get(Get(Get(entry, S_response, JDict(<<>>)), S_content, JDict(<<>>)),
        S_text, JStr(<<>>))

RECURSIVE extract_elector_data(_)

\* the body of an entry is never parsed
EntryElectorsBodyIgnored(entry) == <<>>

\* what one entry of log.entries adds: the electors of its body parsed as
\* JSON; nothing when the text is empty, is no str or is no JSON
EntryElectors(entry) ==
    LET text == EntryText(entry) IN
    IF Falsy(text) \/ text.t # "str" \/ JsonLoads(text.s) = ParseError
    THEN <<>>
    ELSE extract_elector_data(JsonLoads(text.s))

\* the loop over log.entries inside extract_elector_data: an entry that
\* raises ends it, the except clause keeps what was collected
RECURSIVE HarLoopCaught(_)
HarLoopCaught(es) ==
    IF es = <<>> \/ EntryRaises(Head(es)) THEN <<>>
    ELSE EntryElectors(Head(es)) \o HarLoopCaught(Tail(es))

extract_elector_data(json_data) ==
    IF ~IsDict(json_data) THEN <<>>
    ELSE
      LET keys == KeysOf(json_data.kv)
          inPayload == IF S_payload \in keys
                       THEN PyIn(S_electorDetailDto, ValueAt(json_data.kv, S_payload))
                       ELSE "false"
          inLog == IF S_log \in keys
                   THEN PyIn(S_entries, ValueAt(json_data.kv, S_log))
                   ELSE "false"
      IN  IF inPayload = "raise" THEN <<>>
          ELSE IF inPayload = "true"
          THEN LET payload == ValueAt(json_data.kv, S_payload) IN
               IF IsDict(payload)
               THEN ElectorsOf(ValueAt(payload.kv, S_electorDetailDto))
               ELSE <<>>
          ELSE IF S_electorDetailDto \in keys
          THEN ElectorsOf(ValueAt(json_data.kv, S_electorDetailDto))
          ELSE IF inLog = "raise" THEN <<>>
          ELSE IF inLog = "true"
          THEN LET log == ValueAt(json_data.kv, S_log) IN
               IF IsDict(log) /\ IsList(ValueAt(log.kv, S_entries))
               THEN HarLoopCaught(ValueAt(log.kv, S_entries).items)
               ELSE <<>>
          ELSE <<>>

\* the loop of extract_generic_data over a list document
RECURSIVE GenericItems(_)
GenericItems(items) ==
    IF items = <<>> THEN <<>>
    ELSE <<IF IsDict(Head(items))
           THEN flatten_dict(Head(items).kv, <<>>)
           ELSE <<<<S_value, Head(items)>>>>>> \o GenericItems(Tail(items))

extract_generic_data(json_data) ==
    IF IsList(json_data) THEN GenericItems(json_data.items)
    ELSE IF IsDict(json_data) THEN <<flatten_dict(json_data.kv, <<>>)>>
    ELSE <<>>

\* the loop of convert_file over data.get('log', {}).get('entries', []) of a
\* .har file, which no try encloses: does it raise?
HarLoopRaises(data) ==
    \/ ~IsDict(data)
    \/ ~IsDict(Get(data, S_log, JDict(<<>>)))
    \/ LET es == Get(Get(data, S_log, JDict(<<>>)), S_entries, JList(<<>>)) IN
       IF IsList(es) THEN \E i \in 1..Len(es.items) : EntryRaises(es.items[i])
       ELSE IF IsDict(es) THEN es.kv # <<>>
       ELSE IF es.t = "str" THEN es.s # <<>>
       ELSE TRUE

\* the entries that loop collects when it does not raise
RECURSIVE HarLoopEntries(_)
HarLoopEntries(es) ==
    IF es = <<>> THEN <<>>
    ELSE EntryElectors(Head(es)) \o HarLoopEntries(Tail(es))

\* load_json_file: the parsed content; {} when json.load raises JSONDecodeError
load_json_file(file) ==
    IF file.content = ParseError THEN JDict(<<>>) ELSE file.content

\* convert_file up to the save: the entries, or that an exception leaves it
ConvertEntries(file) ==
    LET data == load_json_file(file)
        first == extract_elector_data(data)
    IN  IF Falsy(data) THEN [raised |-> FALSE, entries |-> <<>>]
        ELSE IF first # <<>> THEN [raised |-> FALSE, entries |-> first]
        ELSE IF file.suffix = ".har" /\ HarLoopRaises(data)
        THEN [raised |-> TRUE, entries |-> <<>>]
        ELSE LET es == Get(Get(data, S_log, JDict(<<>>)), S_entries, JList(<<>>))
                 second == IF file.suffix = ".har" /\ IsList(es)
                           THEN HarLoopEntries(es.items)
                           ELSE <<>>
             IN  [raised |-> FALSE,
                  entries |-> IF second # <<>> THEN second
                              ELSE extract_generic_data(data)]

\* output_name: custom_filename if it is given and not empty, else the stem
OutputName(file, custom) ==
    IF custom # <<>> /\ custom[1] # <<>> THEN custom[1] ELSE file.stem

MaxItems == 2

\* {}, {"a": 1}, {"a": {"b": 1}, "c": [1, 2]}
ObjItems ==
    {JDict(<<>>),
     JDict(<<<<S_a, JInt(1)>>>>),
     JDict(<<<<S_a, JDict(<<<<S_b, JInt(1)>>>>)>>,
             <<S_c, JList(<<JInt(1), JInt(2)>>)>>>>)}

\* the lists of up to MaxItems items: objects and the number 5
ItemLists == UNION {[1..n -> ObjItems \cup {JInt(5)}] : n \in 0..MaxItems}

ListDocs == {JList(l) : l \in ItemLists}

\* {"payload": {"electorDetailDto": [...]}}, {"electorDetailDto": [...]} and
\* {"payload": 5}
ElectorDocs ==
    {JDict(<<<<S_payload, JDict(<<<<S_electorDetailDto, JList(l)>>>>)>>>>) :
        l \in ItemLists}
    \cup {JDict(<<<<S_electorDetailDto, JList(l)>>>>) : l \in ItemLists}
    \cup {JDict(<<<<S_payload, JInt(5)>>>>)}

\* the response bodies: no text, text that is no JSON, the JSON text of an
\* elector payload
BodyContents ==
    {JDict(<<>>), JDict(<<<<S_text, JStr(S_oops)>>>>)}
    \cup {JDict(<<<<S_text, JStr(BodyText[b])>>>>) : b \in BodyDocs}

\* {"response": {"status": 200 | 404, "content": {...}}}
HarEntries ==
    {JDict(<<<<S_response,
               JDict(<<<<S_status, JInt(st)>>, <<S_content, c>>>>)>>>>) :
        st \in {200, 404}, c \in BodyContents}

\* {"log": {"entries": [...]}}
HarDocs ==
    {JDict(<<<<S_log, JDict(<<<<S_entries, JList(e)>>>>)>>>>) :
        e \in UNION {[1..n -> HarEntries] : n \in 0..MaxItems}}

\* the contents of the input file; ParseError is a file that holds no JSON
InputContents ==
    ListDocs \cup ElectorDocs \cup HarDocs \cup ObjItems
        \cup {JInt(5), ParseError}

CvInit ==
    /\ cv_input \in [stem : {S_doc}, suffix : {".har", ".json", ".txt"},
                     content : InputContents]
    /\ cv_custom \in {<<>>, <<S_out>>}
    /\ cv_entries = <<>>
    /\ cv_pc = "input"
    /\ out_dir = <<>>
    /\ SfIdle /\ GcIdle /\ MainIdle /\ FlIdle /\ CaIdle /\ CpIdle

\* convert_file(file_path, custom_filename) returns
ConvertFile ==
    /\ cv_pc = "input"
    /\ LET r == ConvertEntries(cv_input)
       IN  /\ ~r.raised
           /\ cv_entries' = r.entries
           /\ out_dir' = save_to_csv(out_dir, r.entries,
                                     OutputName(cv_input, cv_custom))
    /\ cv_pc' = "done"
    /\ UNCHANGED <<cv_input, cv_custom, not_cv>>

\* convert_file is left by the AttributeError of its loop over log.entries
ConvertFileRaises ==
    /\ cv_pc = "input"
    /\ ConvertEntries(cv_input).raised
    /\ cv_pc' = "crashed"
    /\ UNCHANGED <<cv_input, cv_custom, cv_entries, out_dir, not_cv>>

CvNext == ConvertFile \/ ConvertFileRaises

SpecConvert == CvInit /\ [][CvNext]_vars

\* the number of rows in the CSV files of the output directory
RowsWritten ==
    IF out_dir = <<>> THEN 0
    ELSE LET f == CHOOSE f \in DOMAIN out_dir : TRUE IN Len(out_dir[f].rows)

\* C6: convert_file writes as many CSV rows as a list-of-objects document has
\* items, and exactly one row for a document that is a bare object.
C6_RowCounts ==
    cv_pc \in {"done", "crashed"} =>
        LET doc == cv_input.content IN
        /\ (IsList(doc) /\ \A i \in 1..Len(doc.items) : IsDict(doc.items[i]))
              => RowsWritten = Len(doc.items)
        /\ IsDict(doc) => RowsWritten = 1

\* the document has log.entries, a list of exchanges
HarShaped(doc) ==
    /\ IsDict(doc)
    /\ S_log \in KeysOf(doc.kv)
    /\ IsDict(ValueAt(doc.kv, S_log))
    /\ S_entries \in KeysOf(ValueAt(doc.kv, S_log).kv)
    /\ IsList(ValueAt(ValueAt(doc.kv, S_log).kv, S_entries))

\* the exchanges of a HAR document
LogEntries(doc) == ValueAt(ValueAt(doc.kv, S_log).kv, S_entries).items

\* the CSV file convert_file wrote
ConvertedFile == out_dir[OutputName(cv_input, cv_custom) \o CsvSuffix]

\* position of a column in a header, 0 when it is not there
ColumnOf(header, key) ==
    IF \E j \in 1..Len(header) : header[j] = key
    THEN CHOOSE j \in 1..Len(header) : header[j] = key
    ELSE 0

\* C7 as stated: a document with log.entries gives one record per exchange,
\* carrying its status: the CSV has as many rows as log.entries has entries
\* and a status column holding the statuses in order.
C7_Original ==
    (cv_pc \in {"done", "crashed"} /\ HarShaped(cv_input.content)
        /\ LogEntries(cv_input.content) # <<>>) =>
        LET es == LogEntries(cv_input.content) IN
        /\ out_dir # <<>>
        /\ Len(ConvertedFile.rows) = Len(es)
        /\ ColumnOf(ConvertedFile.header, S_status) # 0
        /\ \A i \in 1..Len(es) :
              ConvertedFile.rows[i][ColumnOf(ConvertedFile.header, S_status)]
                 = IntStr(ValueAt(ValueAt(es[i].kv, S_response).kv, S_status).n)

\* the elector objects that the body of an exchange holds as JSON text
BodyElectors(entry) ==
    LET text == EntryText(entry) IN
    IF \E b \in BodyDocs : text = JStr(BodyText[b])
    THEN LET b == CHOOSE b \in BodyDocs : text = JStr(BodyText[b])
         IN  ValueAt(ValueAt(b.kv, S_payload).kv, S_electorDetailDto).items
    ELSE <<>>

\* the elector objects of all the bodies of a HAR document, in entry order
AllBodyElectors(doc) ==
    Join([i \in 1..Len(LogEntries(doc)) |-> BodyElectors(LogEntries(doc)[i])],
         <<>>)

\* C7 as amended: a document with log.entries gives one record per elector
\* object found in the JSON bodies (response.content.text) of its exchanges, in
\* entry order, and no record carries the status of an exchange.  When the
\* bodies hold no elector object the whole document is flattened into one
\* record, whose only column log_entries holds the JSON text of the entries:
\* so a HAR document with two entries of status 200 and 404 and no such body
\* gives a one-row CSV without a status column.
C7_HarElectorRecords ==
    (cv_pc \in {"done", "crashed"} /\ HarShaped(cv_input.content)) =>
        LET doc == cv_input.content
            electors == AllBodyElectors(doc)
        IN  /\ cv_pc = "done"
            /\ out_dir # <<>>
            /\ ColumnOf(ConvertedFile.header, S_status) = 0
            /\ IF electors # <<>>
               THEN /\ Len(ConvertedFile.rows) = Len(electors)
                    /\ ColumnOf(ConvertedFile.header, S_name) # 0
                    /\ \A i \in 1..Len(electors) :
                          ConvertedFile.rows[i][ColumnOf(ConvertedFile.header, S_name)]
                             = ValueAt(electors[i].kv, S_name).s
               ELSE /\ ConvertedFile.header = <<S_log_entries>>
                    /\ ConvertedFile.rows
                          = <<<<JsonDumps(JList(LogEntries(doc)))>>>>

\* C7's case: a .har capture of two exchanges, status 200 and 404, neither
\* with a body, has been converted to a CSV of one row and one column
C7_Witness ==
    /\ cv_pc = "done"
    /\ cv_input.suffix = ".har"
    /\ HarShaped(cv_input.content)
    /\ Len(LogEntries(cv_input.content)) = 2
    /\ \A i \in 1..2 :
          /\ ValueAt(ValueAt(LogEntries(cv_input.content)[i].kv, S_response).kv,
                     S_status) = JInt(IF i = 1 THEN 200 ELSE 404)
          /\ EntryText(LogEntries(cv_input.content)[i]) = JStr(<<>>)
    /\ out_dir # <<>>
    /\ ConvertedFile.header = <<S_log_entries>>
    /\ Len(ConvertedFile.rows) = 1

(***************************************************************************)
(* convert_all over a directory                                            *)
(***************************************************************************)

\* patterns = ['*.har', '*.json', '*.txt'], as the suffixes they match
Patterns == <<".har", ".json", ".txt">>

\* the place in patterns of the pattern that a file matches
PatternIdx(f) == CHOOSE i \in 1..Len(Patterns) : Patterns[i] = f.suffix

MaxFiles == 2

\* the contents of the files: [{"a": 1}], {"a": {"b": 1}, "c": [1, 2]}, {}
DirContents ==
    {JList(<<JDict(<<<<S_a, JInt(1)>>>>)>>),
     JDict(<<<<S_a, JDict(<<<<S_b, JInt(1)>>>>)>>,
             <<S_c, JList(<<JInt(1), JInt(2)>>)>>>>),
     JDict(<<>>)}

\* doc.har, doc.json, doc.txt, out.har, out.json, out.txt
DirFiles ==
    [stem : {S_doc, S_out}, suffix : {".har", ".json", ".txt"},
     content : DirContents]

\* the directories of up to MaxFiles files, no two of the same name
Directories ==
    {D \in SUBSET DirFiles :
        /\ Cardinality(D) <= MaxFiles
        /\ \A f, g \in D : (f.stem = g.stem /\ f.suffix = g.suffix) => f = g}

CaInit ==
    /\ ca_dir \in Directories
    /\ ca_done = {}
    /\ ca_pc = "scan"
    /\ cv_input = [stem |-> <<>>, suffix |-> ".json", content |-> JNull]
    /\ cv_custom = <<>>
    /\ cv_entries = <<>>
    /\ cv_pc = "idle"
    /\ out_dir = <<>>
    /\ SfIdle /\ GcIdle /\ MainIdle /\ FlIdle /\ CpIdle

\* the file is one that the two loops of convert_all may reach next: no file
\* of an earlier pattern is left (glob yields the files of one pattern in the
\* order of the file system)
IsNextFile(f) ==
    /\ f \in ca_dir \ ca_done
    /\ \A g \in ca_dir \ ca_done : PatternIdx(f) <= PatternIdx(g)

\* self.convert_file(file_path) returns for the next file
ConvertNextFile ==
    /\ ca_pc = "scan"
    /\ \E f \in ca_dir :
          /\ IsNextFile(f)
          /\ LET r == ConvertEntries(f)
             IN  /\ ~r.raised
                 /\ out_dir' = save_to_csv(out_dir, r.entries, OutputName(f, <<>>))
          /\ ca_done' = ca_done \cup {f}
    /\ UNCHANGED <<ca_dir, ca_pc, cv_input, cv_custom, cv_entries, cv_pc, not_ca>>

\* self.convert_file(file_path) raises: nothing in convert_all or main
\* catches it
ConvertNextFileRaises ==
    /\ ca_pc = "scan"
    /\ \E f \in ca_dir : IsNextFile(f) /\ ConvertEntries(f).raised
    /\ ca_pc' = "crashed"
    /\ UNCHANGED <<ca_dir, ca_done, cv_vars, not_ca>>

\* the loops are over
ConvertAllReturns ==
    /\ ca_pc = "scan"
    /\ ca_done = ca_dir
    /\ ca_pc' = "done"
    /\ UNCHANGED <<ca_dir, ca_done, cv_vars, not_ca>>

CaNext == ConvertNextFile \/ ConvertNextFileRaises \/ ConvertAllReturns

SpecConvertAll == CaInit /\ [][CaNext]_vars

\* the input files that yield at least one record
YieldingFiles ==
    {f \in ca_dir : ~ConvertEntries(f).raised /\ ConvertEntries(f).entries # <<>>}

\* the CSV file that holds exactly the records of f
OwnCsv(f) ==
    save_to_csv(<<>>, ConvertEntries(f).entries, f.stem)[f.stem \o CsvSuffix]

\* C12: when a run of convert_all over a directory has ended, every input file
\* that yields a record has its own CSV file with exactly its records: there
\* are as many CSV files as such inputs, and none holds the records of
\* another input.
C12_OwnCsvPerInput ==
    ca_pc \in {"done", "crashed"} =>
        /\ \A f \in YieldingFiles :
              /\ (f.stem \o CsvSuffix) \in DOMAIN out_dir
              /\ out_dir[f.stem \o CsvSuffix] = OwnCsv(f)
        /\ Cardinality(DOMAIN out_dir) = Cardinality(YieldingFiles)

(***************************************************************************)
(* create_pdf_for_row                                                      *)
(*                                                                         *)
(* row_data is the sequence of the cells of a row, one for each column of  *)
(* the dataset; column number c is named "c<c>".  A cell is NaN, a str or  *)
(* an int.  The page is the sequence of the texts handed to pdf.cell and   *)
(* pdf.multi_cell.                                                         *)
(***************************************************************************)
CellNaN == [t |-> "nan"]

\* str(value) of a cell that is not NaN
CellStr(v) == IF v.t = "int" THEN IntStr(v.n) ELSE v.s

\* pd.isna(value) or value == ''
CellIsNaOrEmpty(v) == v.t = "nan" \/ v = JStr(<<>>)

\* ' '.join(value.split())
SplitJoin(s) == ReSubRuns(PyStrip(s, PyWhitespace), PyWhitespace, 32)

\* 'N/A'
S_NA == <<78, 47, 65>>

\* f"{col}:"
ColumnLabel(col) == <<99>> \o Digits(col) \o <<58>>

\* generate_pdfs.py: the cells one selected column adds to the page
ColumnCells(col, v) ==
    LET value == IF CellIsNaOrEmpty(v) THEN S_NA
                 ELSE PyStrip(CellStr(v), PyWhitespace)
    IN  IF value = <<>> \/ value = S_NA THEN <<>>
        ELSE <<ColumnLabel(col), SplitJoin(value)>>

\* generate_pdfs_nomapping.py: the cells one selected column adds to the page
ColumnCellsNomapping(col, v) ==
    IF CellIsNaOrEmpty(v) THEN <<>>
    ELSE LET value == PyStrip(CellStr(v), PyWhitespace)
         IN  IF value = <<>> THEN <<>>
             ELSE <<ColumnLabel(col), SplitJoin(value)>>

\* the loop over selected_columns of create_pdf_for_row of script s
RECURSIVE create_pdf_for_row(_, _, _)
create_pdf_for_row(s, row_data, selected_columns) ==
    IF selected_columns = <<>> THEN <<>>
    ELSE LET col == Head(selected_columns)
             here == IF col \notin DOMAIN row_data THEN <<>>
                     ELSE IF s = "generate_pdfs"
                     THEN ColumnCells(col, row_data[col])
                     ELSE ColumnCellsNomapping(col, row_data[col])
         IN  here \o create_pdf_for_row(s, row_data, Tail(selected_columns))

MaxCells == 2

\* NaN, '', ' ', 'a', ' a  b ', ' N/A', 0
CellValues ==
    {CellNaN, JStr(<<>>), JStr(<<32>>), JStr(<<97>>),
     JStr(<<32, 97, 32, 32, 98, 32>>), JStr(<<32>> \o S_NA), JInt(0)}

\* the rows of a dataset of MaxCells + 1 columns
Rows == [1..(MaxCells + 1) -> CellValues]

\* the selected columns: all but the first, or all but the last
Selections ==
    {[i \in 1..MaxCells |-> i + 1], [i \in 1..MaxCells |-> i]}

CpInit ==
    /\ cp_script \in Scripts
    /\ cp_row \in Rows
    /\ cp_selected \in Selections
    /\ cp_rendered = <<>>
    /\ cp_pc = "input"
    /\ SfIdle /\ GcIdle /\ MainIdle /\ FlIdle /\ CvIdle /\ CaIdle

\* create_pdf_for_row(row_data, selected_columns, output_filename) returns
CreatePdfForRow ==
    /\ cp_pc = "input"
    /\ cp_rendered' = create_pdf_for_row(cp_script, cp_row, cp_selected)
    /\ cp_pc' = "done"
    /\ UNCHANGED <<cp_script, cp_row, cp_selected, not_cp>>

CpNext == CreatePdfForRow

SpecCreatePdf == CpInit /\ [][CpNext]_vars

\* the cell's value is there and is not empty after stripping whitespace
NonEmptyCell(v) ==
    v.t # "nan" /\ PyStrip(CellStr(v), PyWhitespace) # <<>>

\* the selected columns whose cell is non-empty, in selected-column order
ColumnsToRender ==
    SelectSeq(cp_selected, LAMBDA c : NonEmptyCell(cp_row[c]))

\* a text without its whitespace
Squeeze(s) == SelectSeq(s, LAMBDA c : c \notin PyWhitespace)

\* C13: create_pdf_for_row renders exactly the selected columns whose cell is
\* non-empty after stripping whitespace, each once as its label and then its
\* value, in selected-column order: a selected column is left out exactly when
\* its cell is missing or empty, and no other column is rendered.
C13_RendersNonEmptySelected ==
    cp_pc = "done" =>
        /\ Len(cp_rendered) = 2 * Len(ColumnsToRender)
        /\ \A k \in 1..Len(ColumnsToRender) :
              /\ cp_rendered[2 * k - 1] = ColumnLabel(ColumnsToRender[k])
              /\ Squeeze(cp_rendered[2 * k])
                    = Squeeze(CellStr(cp_row[ColumnsToRender[k]]))

(***************************************************************************)
(* main of convert_to_csv.py on a local input file                         *)
(*                                                                         *)
(* cv_custom is args.filename here: <<>> when --filename is not given.     *)
(***************************************************************************)

\* `if args.filename`
FilenameGiven == cv_custom # <<>> /\ cv_custom[1] # <<>>

\* the --filename branch of main up to the save: the entries, or that an
\* exception leaves it
MainFilenameEntries(file) ==
    LET data == load_json_file(file)
        first == extract_elector_data(data)
    IN  IF first # <<>> THEN [raised |-> FALSE, entries |-> first]
        ELSE IF file.suffix = ".har" /\ HarLoopRaises(data)
        THEN [raised |-> TRUE, entries |-> <<>>]
        ELSE LET es == Get(Get(data, S_log, JDict(<<>>)), S_entries, JList(<<>>))
             IN  [raised |-> FALSE,
                  entries |-> IF file.suffix = ".har" /\ IsList(es)
                              THEN HarLoopEntries(es.items)
                              ELSE <<>>]

\* main with --filename: converter.save_to_csv(entries, args.filename)
MainWithFilename ==
    /\ cv_pc = "input"
    /\ FilenameGiven
    /\ LET r == MainFilenameEntries(cv_input)
       IN  /\ ~r.raised
           /\ cv_entries' = r.entries
           /\ out_dir' = save_to_csv(out_dir, r.entries, cv_custom[1])
    /\ cv_pc' = "done"
    /\ UNCHANGED <<cv_input, cv_custom, not_cv>>

\* main with --filename is left by the AttributeError of its loop
MainWithFilenameRaises ==
    /\ cv_pc = "input"
    /\ FilenameGiven
    /\ MainFilenameEntries(cv_input).raised
    /\ cv_pc' = "crashed"
    /\ UNCHANGED <<cv_input, cv_custom, cv_entries, out_dir, not_cv>>

\* main without --filename: convert_all calls convert_file(input_path)
MainConvertAll ==
    /\ cv_pc = "input"
    /\ ~FilenameGiven
    /\ LET r == ConvertEntries(cv_input)
       IN  /\ ~r.raised
           /\ cv_entries' = r.entries
           /\ out_dir' = save_to_csv(out_dir, r.entries, OutputName(cv_input, <<>>))
    /\ cv_pc' = "done"
    /\ UNCHANGED <<cv_input, cv_custom, not_cv>>

MainConvertAllRaises ==
    /\ cv_pc = "input"
    /\ ~FilenameGiven
    /\ ConvertEntries(cv_input).raised
    /\ cv_pc' = "crashed"
    /\ UNCHANGED <<cv_input, cv_custom, cv_entries, out_dir, not_cv>>

MainLocalNext ==
    \/ MainWithFilename
    \/ MainWithFilenameRaises
    \/ MainConvertAll
    \/ MainConvertAllRaises

SpecMainLocal == CvInit /\ [][MainLocalNext]_vars

\* the output directory that convert_file leaves for the input file
ConvertFileDir ==
    save_to_csv(<<>>, ConvertEntries(cv_input).entries, cv_input.stem)

\* C14: for a single local input file the records written do not depend on
\* --filename: when main has run with --filename, it has written the header
\* and rows that convert_file writes for the same file, under the given name,
\* has written nothing where convert_file writes nothing, and has ended by an
\* exception exactly where convert_file does.
C14_SameRecordsWithFilename ==
    (cv_pc \in {"done", "crashed"} /\ FilenameGiven) =>
        /\ (cv_pc = "crashed") = ConvertEntries(cv_input).raised
        /\ cv_entries = ConvertEntries(cv_input).entries
        /\ IF ConvertFileDir = <<>>
           THEN out_dir = <<>>
           ELSE /\ DOMAIN out_dir = {cv_custom[1] \o CsvSuffix}
                /\ out_dir[cv_custom[1] \o CsvSuffix]
                      = ConvertFileDir[cv_input.stem \o CsvSuffix]

=============================================================================
